---- MODULE Spec2Model ----
(***************************************************************************)
(* Model of the bracket-key reconstruction core of                         *)
(* serde-teamspeak-querystring: PairMap (src/de/stash/map.rs) and PairSeq  *)
(* (src/de/stash/seq.rs), driven by a serde visitor.                       *)
(*                                                                         *)
(* Byte ranges are sequences of one-character strings.  Option<T> is a     *)
(* sequence of length 0 (None) or 1 (Some).  Result<T> is a record with a  *)
(* field res that is "ok" or the name of the Error variant.                *)
(***************************************************************************)
EXTENDS Integers, Sequences, FiniteSets

(* ------------------------------ bounds -------------------------------- *)

\* longest key of the single-pair inputs that range over every byte string
MaxKeyLen == 4
\* most pairs of an input built from the bracket paths of PathKeys
MaxPairs == 2
\* largest depth ceiling handed to PairMap::new
MaxDepth == 2

(* ---------------------------- basic types ----------------------------- *)

\* u16 arithmetic: remaining_depth is a u16
U16Mod == 65536

None == << >>

Some(x) == << x >>

Errors == {"InvalidMapKey", "InvalidMapValue", "MaximumDepthReached", "EofReached"}

Pair(k, v) == [key |-> k, value |-> v]

\* remaining_depth - 1 on a u16, as a release build computes it (wrapping)
Sub1(d) == (d + U16Mod - 1) % U16Mod

\* key[i] with the source's 0-based index
Byte(s, i) == s[i + 1]

\* &s[from..to] with the source's 0-based, half-open range
Slice(s, from, to) == SubSeq(s, from + 1, to)

\* VecDeque::pop_back: the pair removed and the queue left
Back(q) == q[Len(q)]

Front(q) == SubSeq(q, 1, Len(q) - 1)

(* ------------------------------- Stash -------------------------------- *)
(* The Stash lives in src/de/stash/mod.rs, which is not among the source   *)
(* files; it is modelled from the specification: an ordered collection of  *)
(* groups (group key -> ordered list of child pairs), the group whose key  *)
(* next_key returned last, and the depth ceiling.                          *)

StashNew(depth) == [remaining_depth |-> depth, groups |-> << >>, pending |-> None]

RECURSIVE GroupIndex(_, _, _)
GroupIndex(groups, key, i) ==
  IF i > Len(groups) THEN 0
  ELSE IF groups[i].key = key THEN i
  ELSE GroupIndex(groups, key, i + 1)

\* Stash::add: register (sub_key, value) under the group named key
StashAdd(stash, key, sub_key, value) ==
  LET i == GroupIndex(stash.groups, key, 1)
  IN IF i = 0
     THEN [stash EXCEPT !.groups = Append(@, [key |-> key, pairs |-> << Pair(sub_key, value) >>])]
     ELSE [stash EXCEPT !.groups[i].pairs = Append(@, Pair(sub_key, value))]

\* Stash::next_key: the next unresolved group name, none when exhausted
StashNextKey(stash) ==
  IF stash.groups = << >>
  THEN [stash |-> stash, res |-> "ok", key |-> None]
  ELSE [stash |-> [stash EXCEPT !.groups = Tail(@), !.pending = Some(Head(stash.groups))],
        res |-> "ok", key |-> Some(Head(stash.groups).key)]

(* ------------------------------ PairMap ------------------------------- *)

PairMapNew(depth, pairs) == [pairs |-> pairs, value |-> None, stash |-> StashNew(depth)]

WithOnePair(depth, pair) == [pairs |-> << pair >>, value |-> None, stash |-> StashNew(depth)]

\* a next_value_map that builds the child without looking at the depth
MutStashNextValueMap(stash) ==
  IF stash.pending = None
  THEN [stash |-> stash, res |-> "InvalidMapValue", map |-> PairMapNew(0, << >>)]
  ELSE [stash |-> [stash EXCEPT !.pending = None], res |-> "ok",
        map |-> PairMapNew(Sub1(stash.remaining_depth), stash.pending[1].pairs)]

\* Stash::next_value_map: the child PairMap of the group next_key returned
StashNextValueMap(stash) ==
  IF stash.pending = None
  THEN [stash |-> stash, res |-> "InvalidMapValue", map |-> PairMapNew(0, << >>)]
  ELSE IF stash.remaining_depth = 0
  THEN [stash |-> stash, res |-> "MaximumDepthReached", map |-> PairMapNew(0, << >>)]
  ELSE [stash |-> [stash EXCEPT !.pending = None], res |-> "ok",
        map |-> PairMapNew(stash.remaining_depth - 1, stash.pending[1].pairs)]

\* one entry of the log of the calls an operation makes inside the core
Call(fn, res, pair, ret, before, after) ==
  [fn |-> fn, res |-> res, pair |-> pair, ret |-> ret, before |-> before, after |-> after]

NoPair == Pair(<< >>, << >>)

\* the while loop of parse_pair: the index of the first ']' from key_index on
RECURSIVE Scan(_, _)
Scan(key, key_index) ==
  IF key_index < Len(key)
  THEN IF Byte(key, key_index) = "]" THEN key_index ELSE Scan(key, key_index + 1)
  ELSE key_index

\* ParsePair with the opener test of line 58 off by one: a ']' '[' with nothing
\* after it is deferred
MutParsePairOpener(m, pair) ==
  LET key_index == Scan(pair.key, 0)
      key_found == key_index < Len(pair.key)
  IN IF ~key_found
     THEN [m |-> m, res |-> "InvalidMapKey", key |-> None]
     ELSE IF Len(pair.key) > key_index + 1
     THEN IF Len(pair.key) >= key_index + 2 /\ Byte(pair.key, key_index + 1) = "["
          THEN [m |-> [m EXCEPT !.stash = StashAdd(@, Slice(pair.key, 0, key_index),
                                                      Slice(pair.key, key_index + 2, Len(pair.key)),
                                                      pair.value)],
                res |-> "ok", key |-> None]
          ELSE [m |-> m, res |-> "InvalidMapKey", key |-> None]
     ELSE [m |-> [m EXCEPT !.value = Some(pair.value)],
           res |-> "ok", key |-> Some(Slice(pair.key, 0, key_index))]

\* ParsePair with the sub key of line 61 starting at the '[' instead of after it
MutParsePairSubKey(m, pair) ==
  LET key_index == Scan(pair.key, 0)
      key_found == key_index < Len(pair.key)
  IN IF ~key_found
     THEN [m |-> m, res |-> "InvalidMapKey", key |-> None]
     ELSE IF Len(pair.key) > key_index + 1
     THEN IF Len(pair.key) > key_index + 2 /\ Byte(pair.key, key_index + 1) = "["
          THEN [m |-> [m EXCEPT !.stash = StashAdd(@, Slice(pair.key, 0, key_index),
                                                      Slice(pair.key, key_index + 1, Len(pair.key)),
                                                      pair.value)],
                res |-> "ok", key |-> None]
          ELSE [m |-> m, res |-> "InvalidMapKey", key |-> None]
     ELSE [m |-> [m EXCEPT !.value = Some(pair.value)],
           res |-> "ok", key |-> Some(Slice(pair.key, 0, key_index))]

ParsePair(m, pair) ==
  LET key_index == Scan(pair.key, 0)
      key_found == key_index < Len(pair.key)
  IN IF ~key_found
     THEN [m |-> m, res |-> "InvalidMapKey", key |-> None]
     ELSE IF Len(pair.key) > key_index + 1
     THEN IF Len(pair.key) > key_index + 2 /\ Byte(pair.key, key_index + 1) = "["
          THEN [m |-> [m EXCEPT !.stash = StashAdd(@, Slice(pair.key, 0, key_index),
                                                      Slice(pair.key, key_index + 2, Len(pair.key)),
                                                      pair.value)],
                res |-> "ok", key |-> None]
          ELSE [m |-> m, res |-> "InvalidMapKey", key |-> None]
     ELSE [m |-> [m EXCEPT !.value = Some(pair.value)],
           res |-> "ok", key |-> Some(Slice(pair.key, 0, key_index))]

\* a result with one more call at the head of its log
Logged(call, r) == [r EXCEPT !.log = << call >> \o @]

RECURSIVE NextKey(_)

\* next_key with its return moved behind the loop: a terminal key is handed
\* back only once the queue is empty
MutNextKeyParsed(pair, popped, p) ==
  IF p.res # "ok" \/ (p.key # None /\ p.m.pairs = << >>)
  THEN [m |-> p.m, res |-> p.res, key |-> p.key,
        log |-> << Call("parse_pair", p.res, pair, p.key, popped, p.m) >>]
  ELSE Logged(Call("parse_pair", p.res, pair, p.key, popped, p.m), NextKey(p.m))

\* next_key with an if in place of the loop: a deferred pair ends the search
MutNextKeyParsedOnce(pair, popped, p) ==
  [m |-> p.m, res |-> p.res, key |-> p.key,
   log |-> << Call("parse_pair", p.res, pair, p.key, popped, p.m) >>]

\* next_key, the match on parse_pair(pair)?: p is what parse_pair returned for
\* the pair popped from the queue, leaving the node popped
NextKeyParsed(pair, popped, p) ==
  IF p.res # "ok" \/ p.key # None
  THEN [m |-> p.m, res |-> p.res, key |-> p.key,
        log |-> << Call("parse_pair", p.res, pair, p.key, popped, p.m) >>]
  ELSE Logged(Call("parse_pair", p.res, pair, p.key, popped, p.m), NextKey(p.m))

NextKeyPopped(pair, popped) == NextKeyParsed(pair, popped, ParsePair(popped, pair))

\* next_key dropping a second pair with each pair it pops
MutNextKey(m) ==
  IF m.pairs = << >>
  THEN [m |-> m, res |-> "ok", key |-> None, log |-> << >>]
  ELSE NextKeyPopped(Back(m.pairs), [m EXCEPT !.pairs = Front(Front(@))])

\* PairMap::next_key, with the log of its parse_pair calls
NextKey(m) ==
  IF m.pairs = << >>
  THEN [m |-> m, res |-> "ok", key |-> None, log |-> << >>]
  ELSE NextKeyPopped(Back(m.pairs), [m EXCEPT !.pairs = Front(@)])

\* next_value reading the slot without clearing it (as_ref instead of take)
MutNextValueKeeps(m) ==
  IF m.value # None
  THEN [m |-> m, res |-> "ok", value |-> m.value[1]]
  ELSE [m |-> m, res |-> "InvalidMapValue", value |-> << >>]

\* PairMap::next_value
NextValue(m) ==
  IF m.value # None
  THEN [m |-> [m EXCEPT !.value = None], res |-> "ok", value |-> m.value[1]]
  ELSE [m |-> m, res |-> "InvalidMapValue", value |-> << >>]

NextValueCall(m) ==
  LET v == NextValue(m)
  IN Call("next_value", v.res, NoPair, IF v.res = "ok" THEN Some(v.value) ELSE None, m, v.m)

(* ------------------------- scalar decoding ---------------------------- *)
(* crate::from_bytes::<u16> is the scalar decoder, outside the source      *)
(* files; it is modelled from the specification as "decodes a bounded      *)
(* non-negative integer": a non-empty string of decimal digits whose value *)
(* fits a u16.                                                             *)

Digits == {"0", "1", "2", "3", "4", "5", "6", "7", "8", "9"}

DigitVal(c) ==
  CASE c = "0" -> 0 [] c = "1" -> 1 [] c = "2" -> 2 [] c = "3" -> 3 [] c = "4" -> 4
    [] c = "5" -> 5 [] c = "6" -> 6 [] c = "7" -> 7 [] c = "8" -> 8 [] OTHER -> 9

RECURSIVE Decimal(_, _)
Decimal(s, acc) ==
  IF s = << >> THEN acc ELSE Decimal(Tail(s), 10 * acc + DigitVal(Head(s)))

FromBytesU16(key) ==
  IF key # << >> /\ (\A i \in 1..Len(key) : key[i] \in Digits) /\ Decimal(key, 0) < U16Mod
  THEN [res |-> "ok", index |-> Decimal(key, 0)]
  ELSE [res |-> "DecodeError", index |-> 0]

(* ------------------------------ PairSeq ------------------------------- *)

PairSeqNew(items, remaining_depth) == [items |-> items, remaining_depth |-> remaining_depth]

NoMap == PairMapNew(0, << >>)

\* (sort key, ItemKind): tag, value and map are the ItemKind; idx is item.0 of
\* into_seq, and key the bytes it was decoded from.  PairSeq keeps the pairs
\* (idx, key) beside each ItemKind as history: the code drops them (map.rs:137).
ItemValue(idx, key, value) ==
  [idx |-> idx, key |-> key, tag |-> "Value", value |-> value, map |-> NoMap]

ItemMap(idx, key, map) ==
  [idx |-> idx, key |-> key, tag |-> "Map", value |-> << >>, map |-> map]

\* the sort key of into_seq: the index the key decodes to, else -1
SortKey(key) ==
  LET d == FromBytesU16(key) IN IF d.res = "ok" THEN d.index ELSE -1

\* Vec::sort_by_key(|item| item.0): stable, ascending (insertion after the
\* last element that is not greater)
RECURSIVE MutInsertSorted(_, _)
\* an insertion that goes in front of the elements with an equal key
MutInsertSorted(sorted, item) ==
  IF sorted = << >> THEN << item >>
  ELSE IF sorted[Len(sorted)].idx < item.idx THEN Append(sorted, item)
  ELSE Append(MutInsertSorted(Front(sorted), item), sorted[Len(sorted)])

RECURSIVE InsertSorted(_, _)
InsertSorted(sorted, item) ==
  IF sorted = << >> THEN << item >>
  ELSE IF sorted[Len(sorted)].idx <= item.idx THEN Append(sorted, item)
  ELSE Append(InsertSorted(Front(sorted), item), sorted[Len(sorted)])

RECURSIVE SortByKey(_)
SortByKey(items) ==
  IF items = << >> THEN << >>
  ELSE InsertSorted(SortByKey(Front(items)), items[Len(items)])

Reverse(items) == [i \in 1..Len(items) |-> items[Len(items) + 1 - i]]

\* into_seq, lines 134-136: order the items by their keys, then reverse
\* into_seq without items.reverse()
MutOrderItems(items) == SortByKey(items)

OrderItems(items) == Reverse(SortByKey(items))

RECURSIVE DrainPairs(_, _, _)

\* into_seq, lines 103-107: the item of the terminal pair whose key is r.key
DrainPairsValue(r, v, items, vlog) ==
  IF v.res # "ok"
  THEN [m |-> v.m, res |-> v.res, items |-> items, log |-> vlog]
  ELSE DrainPairs(v.m, Append(items, ItemValue(SortKey(r.key[1]), r.key[1], v.value)), vlog)

DrainPairsKey(r, items, log) ==
  IF r.res # "ok" \/ r.key = None
  THEN [m |-> r.m, res |-> r.res, items |-> items, log |-> log \o r.log]
  ELSE DrainPairsValue(r, NextValue(r.m), items, log \o r.log \o << NextValueCall(r.m) >>)

\* into_seq, first loop: every level-local terminal pair becomes a Value item
DrainPairs(m, items, log) == DrainPairsKey(NextKey(m), items, log)

\* an empty-named group kept whole: one map item holding all its pairs
MutExplode(pairs, depth) ==
  IF pairs = << >> THEN << >> ELSE << ItemMap(-1, << >>, PairMapNew(depth, pairs)) >>

\* into_seq, lines 117-122: one single-pair map per pair of an empty-named group
RECURSIVE Explode(_, _)
Explode(pairs, depth) ==
  IF pairs = << >> THEN << >>
  ELSE << ItemMap(-1, << >>, WithOnePair(depth, Back(pairs))) >> \o Explode(Front(pairs), depth)

\* into_seq, second loop: every stash group becomes one or more Map items;
\* uf records an evaluation of remaining_depth - 1 at remaining_depth 0
RECURSIVE DrainStash(_, _, _)
DrainStash(m, items, log) ==
  LET k == StashNextKey(m.stash)
      m1 == [m EXCEPT !.stash = k.stash]
      klog == log \o << Call("stash.next_key", k.res, NoPair, k.key, m, m1) >>
  IN IF k.res # "ok"
     THEN [m |-> m1, res |-> k.res, items |-> items, log |-> klog, uf |-> FALSE]
     ELSE IF k.key = None
     THEN [m |-> m1, res |-> "ok", items |-> items, log |-> klog, uf |-> FALSE]
     ELSE LET c == StashNextValueMap(m1.stash)
              m2 == [m1 EXCEPT !.stash = c.stash]
              clog == klog \o << Call("stash.next_value_map", c.res, NoPair, k.key, m1, m2) >>
          IN IF c.res # "ok"
             THEN [m |-> m2, res |-> c.res, items |-> items, log |-> clog, uf |-> FALSE]
             ELSE IF k.key[1] = << >>
             THEN LET r == DrainStash(m2, items \o Explode(c.map.pairs, Sub1(m2.stash.remaining_depth)), clog)
                  IN [r EXCEPT !.uf = @ \/ (c.map.pairs # << >> /\ m2.stash.remaining_depth = 0)]
             ELSE DrainStash(m2, Append(items, ItemMap(SortKey(k.key[1]), k.key[1], c.map)), clog)

\* into_seq handing the PairSeq a depth one less than the node's
MutIntoSeqOrder(b) ==
  IF b.res # "ok"
  THEN [res |-> b.res, seq |-> PairSeqNew(<< >>, 0), m |-> b.m, log |-> b.log, uf |-> b.uf]
  ELSE [res |-> "ok", seq |-> PairSeqNew(OrderItems(b.items), Sub1(b.m.stash.remaining_depth)),
        m |-> b.m, log |-> b.log, uf |-> b.uf]

\* into_seq, lines 134-139, on what the second loop left
IntoSeqOrder(b) ==
  IF b.res # "ok"
  THEN [res |-> b.res, seq |-> PairSeqNew(<< >>, 0), m |-> b.m, log |-> b.log, uf |-> b.uf]
  ELSE [res |-> "ok", seq |-> PairSeqNew(OrderItems(b.items), b.m.stash.remaining_depth),
        m |-> b.m, log |-> b.log, uf |-> b.uf]

\* into_seq going on to its second loop whatever the first loop returned
MutIntoSeqStash(a) == IntoSeqOrder(DrainStash(a.m, a.items, a.log))

\* into_seq, the second loop on what the first loop left
IntoSeqStash(a) ==
  IF a.res # "ok"
  THEN [res |-> a.res, seq |-> PairSeqNew(<< >>, 0), m |-> a.m, log |-> a.log, uf |-> FALSE]
  ELSE IntoSeqOrder(DrainStash(a.m, a.items, a.log))

\* PairMap::into_seq
IntoSeq(m) == IntoSeqStash(DrainPairs(m, << >>, << >>))

(* ------------------------- state of a decode -------------------------- *)

VARIABLES
  input,   \* the pair collection the decode was started on (the borrowed buffer)
  depth0,  \* the depth ceiling the root PairMap was built with
  stack,   \* the nodes the visitor is inside of, the innermost last
  out,     \* what the last operation returned to the visitor
  calls,   \* the calls the last operation made inside the core, in order
  pre      \* the node the last operation was called on, as it was before the call

vars == << input, depth0, stack, out, calls, pre >>

(* A frame is a node in the visitor's hands.  mode says as what:             *)
(*   "de"      a PairMap as serde Deserializer, not yet dispatched           *)
(*   "map"     a PairMap as MapAccess                                        *)
(*   "enum"    a PairMap as EnumAccess, before variant_seed                  *)
(*   "variant" a PairMap as VariantAccess, after variant_seed                *)
(*   "seq"     a PairSeq as SeqAccess                                        *)
(*   "done"    a node that was consumed                                      *)
(* level counts the nodes from the root (1) down to this one; yields is the  *)
(* history of what the node has yielded to its visitor, in order; req is the *)
(* last request made to the PairMap itself: "key" (next_key), "value"        *)
(* (next_value) or "none".                                                    *)
Frame(mode, map, seq, level) ==
  [mode |-> mode, map |-> map, seq |-> seq, level |-> level, yields |-> << >>, req |-> "none"]

NoSeq == PairSeqNew(<< >>, 0)

Top == stack[Len(stack)]

SetTop(f) == [stack EXCEPT ![Len(stack)] = f]

\* one entry of yields: what was yielded, its bytes and its sort key (elements)
Yield(kind, bytes, idx) == [kind |-> kind, bytes |-> bytes, idx |-> idx]

Out(op, res, kind, bytes, depth, uf) ==
  [op |-> op, res |-> res, kind |-> kind, bytes |-> bytes, depth |-> depth, uf |-> uf]

\* an error ends the decode: no operation follows it
Running == out.res = "ok"

(* ------------------------------ inputs -------------------------------- *)

Alphabet == {"a", "]", "["}

\* every byte string over Alphabet of at most MaxKeyLen bytes
AnyKeys == UNION {[1..n -> Alphabet] : n \in 0..MaxKeyLen}

\* the key of a bracket path, first segment stripped of its opener: s1 ] [ s2 ] ...
RECURSIVE KeyOf(_)
KeyOf(path) ==
  IF Len(path) = 1 THEN Head(path) \o << "]" >>
  ELSE Head(path) \o << "]", "[" >> \o KeyOf(Tail(path))

Chain(n) == [i \in 1..n |-> << "a" >>]

Paths ==
  {Chain(n) : n \in 1..(MaxDepth + 1)}
    \cup {<< <<"0">> >>, << <<"1">> >>, << <<"0">>, <<"a">> >>, << << >>, <<"a">> >>}

\* well-formed keys of every nesting up to MaxDepth + 1, and one malformed key
PathKeys == {KeyOf(p) : p \in Paths} \cup {<< "a" >>}

\* the i-th pair's value: i bytes, so that a value names its pair
Val(i) == [j \in 1..i |-> "v"]

Inputs ==
  {<< Pair(k, Val(1)) >> : k \in AnyKeys}
    \cup UNION {{[i \in 1..n |-> Pair(ks[i], Val(i))] : ks \in [1..n -> PathKeys]} : n \in 0..MaxPairs}

Init ==
  /\ input \in Inputs
  /\ depth0 \in 0..MaxDepth
  /\ stack = << Frame("de", PairMapNew(depth0, input), NoSeq, 1) >>
  /\ out = Out("new", "ok", "node", << >>, -1, FALSE)
  /\ calls = << >>
  /\ pre = stack[1]

(* ---------------------- serde::Deserializer for PairMap ---------------- *)

\* deserialize_any and everything forwarded to it: visitor.visit_map(self)
DeserializeAny ==
  /\ Running /\ Top.mode = "de"
  /\ stack' = SetTop([Top EXCEPT !.mode = "map"])
  /\ out' = Out("deserialize_any", "ok", "map", << >>, -1, FALSE)
  /\ calls' = << >>
  /\ pre' = Top
  /\ UNCHANGED << input, depth0 >>

\* deserialize_option probing the pending slot instead of the queue
MutOptionProbe(m) == IF m.value = None THEN "absent" ELSE "present"

\* the answer of deserialize_option on PairMap m
OptionProbe(m) == IF m.pairs = << >> THEN "absent" ELSE "present"

\* deserialize_option: visit_none on an empty queue, else visit_some(self)
DeserializeOption ==
  /\ Running /\ Top.mode = "de"
  /\ stack' = SetTop([Top EXCEPT !.mode = IF OptionProbe(Top.map) = "absent" THEN "done" ELSE "de"])
  /\ out' = Out("deserialize_option", "ok", OptionProbe(Top.map), << >>, -1, FALSE)
  /\ calls' = << >>
  /\ pre' = Top
  /\ UNCHANGED << input, depth0 >>

\* deserialize_enum: visitor.visit_enum(&mut self)
DeserializeEnum ==
  /\ Running /\ Top.mode = "de"
  /\ stack' = SetTop([Top EXCEPT !.mode = "enum"])
  /\ out' = Out("deserialize_enum", "ok", "enum", << >>, -1, FALSE)
  /\ calls' = << >>
  /\ pre' = Top
  /\ UNCHANGED << input, depth0 >>

\* deserialize_seq, given r = self.into_seq()
VisitSeq(r) ==
  /\ stack' = SetTop(IF r.res = "ok"
                     THEN Frame("seq", r.m, r.seq, Top.level)
                     ELSE [Top EXCEPT !.map = r.m])
  /\ out' = Out("deserialize_seq", r.res, IF r.res = "ok" THEN "seq" ELSE "err", << >>, -1, r.uf)
  /\ calls' = r.log

\* deserialize_seq: visitor.visit_seq(&mut self.into_seq()?)
DeserializeSeq ==
  /\ Running /\ Top.mode = "de"
  /\ VisitSeq(IntoSeq(Top.map))
  /\ pre' = Top
  /\ UNCHANGED << input, depth0 >>

(* ------------------------- MapAccess for PairMap ---------------------- *)

\* next_key_seed asking the stash first and the queue's key only after it
MutNextKeySeedFrom(r) ==
  IF r.res # "ok" \/ (r.key # None /\ r.m.stash.groups = << >>)
  THEN r
  ELSE LET k == StashNextKey(r.m.stash)
           m1 == [r.m EXCEPT !.stash = k.stash]
       IN [m |-> m1, res |-> k.res, key |-> k.key,
           log |-> r.log \o << Call("stash.next_key", k.res, NoPair, k.key, r.m, m1) >>]

\* next_key_seed, lines 206-216: the queue's key r, else the stash's
NextKeySeedFrom(r) ==
  IF r.res # "ok" \/ r.key # None
  THEN r
  ELSE LET k == StashNextKey(r.m.stash)
           m1 == [r.m EXCEPT !.stash = k.stash]
       IN [m |-> m1, res |-> k.res, key |-> k.key,
           log |-> r.log \o << Call("stash.next_key", k.res, NoPair, k.key, r.m, m1) >>]

\* next_key_seed without its depth check
MutNextKeySeed(m) == NextKeySeedFrom(NextKey(m))

\* next_key_seed up to the seed: the key bytes handed to the scalar decoder
NextKeySeed(m) ==
  IF m.stash.remaining_depth = 0
  THEN [m |-> m, res |-> "MaximumDepthReached", key |-> None, log |-> << >>]
  ELSE NextKeySeedFrom(NextKey(m))

MapKey(r) ==
  /\ stack' = SetTop([Top EXCEPT !.map = r.m,
                                 !.req = IF Top.map.stash.remaining_depth = 0 THEN @ ELSE "key",
                                 !.yields = IF r.res = "ok" /\ r.key # None
                                            THEN Append(@, Yield("key", r.key[1], -1))
                                            ELSE @])
  /\ out' = Out("next_key_seed", r.res,
                IF r.res # "ok" THEN "err" ELSE IF r.key = None THEN "none" ELSE "key",
                IF r.key = None THEN << >> ELSE r.key[1], -1, FALSE)
  /\ calls' = r.log

MapNextKeySeed ==
  /\ Running /\ Top.mode = "map"
  /\ MapKey(NextKeySeed(Top.map))
  /\ pre' = Top
  /\ UNCHANGED << input, depth0 >>

\* the value resolution decoding the pending scalar at remaining_depth, not one less
MutValueOrChild(m) ==
  LET v == NextValue(m)
      c == StashNextValueMap(m.stash)
      m1 == [m EXCEPT !.stash = c.stash]
  IN IF v.res = "ok"
     THEN [m |-> v.m, res |-> "ok", kind |-> "scalar", bytes |-> v.value,
           depth |-> m.stash.remaining_depth, child |-> NoMap,
           uf |-> FALSE, log |-> << NextValueCall(m) >>]
     ELSE [m |-> m1, res |-> c.res, kind |-> IF c.res = "ok" THEN "child" ELSE "err",
           bytes |-> << >>, depth |-> -1, child |-> c.map, uf |-> FALSE,
           log |-> << NextValueCall(m), Call("stash.next_value_map", c.res, NoPair, None, m, m1) >>]

\* the value resolution shared in shape by next_value_seed and newtype_variant_seed:
\* the pending scalar at remaining_depth - 1, else the stash's child map
ValueOrChild(m) ==
  LET v == NextValue(m)
      c == StashNextValueMap(m.stash)
      m1 == [m EXCEPT !.stash = c.stash]
  IN IF v.res = "ok"
     THEN [m |-> v.m, res |-> "ok", kind |-> "scalar", bytes |-> v.value,
           depth |-> Sub1(m.stash.remaining_depth), child |-> NoMap,
           uf |-> (m.stash.remaining_depth = 0), log |-> << NextValueCall(m) >>]
     ELSE [m |-> m1, res |-> c.res, kind |-> IF c.res = "ok" THEN "child" ELSE "err",
           bytes |-> << >>, depth |-> -1, child |-> c.map, uf |-> FALSE,
           log |-> << NextValueCall(m), Call("stash.next_value_map", c.res, NoPair, None, m, m1) >>]

NextValueSeed(m) == ValueOrChild(m)

\* the node after an operation returned r, the node consumed when it ends in mode
After(r, mode) ==
  [Top EXCEPT !.map = r.m,
              !.req = IF r.log # << >> /\ r.log[1].fn = "next_value" THEN "value" ELSE @,
              !.mode = IF r.res = "ok" THEN mode ELSE @,
              !.yields = IF r.res = "ok"
                         THEN Append(@, Yield(IF r.kind = "scalar" THEN "value" ELSE "child", r.bytes, -1))
                         ELSE @]

MapValue(r) ==
  /\ stack' = IF r.kind = "child"
              THEN Append(SetTop(After(r, "map")), Frame("de", r.child, NoSeq, Top.level + 1))
              ELSE SetTop(After(r, "map"))
  /\ out' = Out("next_value_seed", r.res, r.kind, r.bytes, r.depth, r.uf)
  /\ calls' = r.log

MapNextValueSeed ==
  /\ Running /\ Top.mode = "map"
  /\ MapValue(NextValueSeed(Top.map))
  /\ pre' = Top
  /\ UNCHANGED << input, depth0 >>

(* ----------------- EnumAccess and VariantAccess for PairMap ----------- *)

\* variant_seed, lines 246-260: the queue's key r, else the stash's, else EofReached
VariantSeedFrom(r) ==
  IF r.res # "ok" \/ r.key # None
  THEN r
  ELSE LET k == StashNextKey(r.m.stash)
           m1 == [r.m EXCEPT !.stash = k.stash]
           klog == r.log \o << Call("stash.next_key", k.res, NoPair, k.key, r.m, m1) >>
       IN IF k.res # "ok"
          THEN [m |-> m1, res |-> k.res, key |-> None, log |-> klog]
          ELSE IF k.key = None
          THEN [m |-> m1, res |-> "EofReached", key |-> None, log |-> klog]
          ELSE [m |-> m1, res |-> "ok", key |-> k.key, log |-> klog]

\* variant_seed without its depth check
MutVariantSeed(m) == VariantSeedFrom(NextKey(m))

\* variant_seed up to the seed: the discriminant bytes
VariantSeed(m) ==
  IF m.stash.remaining_depth = 0
  THEN [m |-> m, res |-> "MaximumDepthReached", key |-> None, log |-> << >>]
  ELSE VariantSeedFrom(NextKey(m))

EnumKey(r) ==
  /\ stack' = SetTop([Top EXCEPT !.map = r.m,
                                 !.req = IF Top.map.stash.remaining_depth = 0 THEN @ ELSE "key",
                                 !.mode = IF r.res = "ok" THEN "variant" ELSE "enum",
                                 !.yields = IF r.res = "ok"
                                            THEN Append(@, Yield("variant", r.key[1], -1))
                                            ELSE @])
  /\ out' = Out("variant_seed", r.res, IF r.res = "ok" THEN "key" ELSE "err",
                IF r.key = None THEN << >> ELSE r.key[1],
                IF r.res = "ok" THEN Sub1(r.m.stash.remaining_depth) ELSE -1,
                r.res = "ok" /\ r.m.stash.remaining_depth = 0)
  /\ calls' = r.log

EnumVariantSeed ==
  /\ Running /\ Top.mode = "enum"
  /\ EnumKey(VariantSeed(Top.map))
  /\ pre' = Top
  /\ UNCHANGED << input, depth0 >>

\* unit_variant: Ok(())
UnitVariant ==
  /\ Running /\ Top.mode = "variant"
  /\ stack' = SetTop([Top EXCEPT !.mode = "done"])
  /\ out' = Out("unit_variant", "ok", "unit", << >>, -1, FALSE)
  /\ calls' = << >>
  /\ pre' = Top
  /\ UNCHANGED << input, depth0 >>

NewtypeVariantSeed(m) == ValueOrChild(m)

VisitNewtype(r) ==
  /\ stack' = IF r.kind = "child"
              THEN Append(SetTop(After(r, "done")), Frame("de", r.child, NoSeq, Top.level + 1))
              ELSE SetTop(After(r, "done"))
  /\ out' = Out("newtype_variant_seed", r.res, r.kind, r.bytes, r.depth, r.uf)
  /\ calls' = r.log

NewtypeVariant ==
  /\ Running /\ Top.mode = "variant"
  /\ VisitNewtype(NewtypeVariantSeed(Top.map))
  /\ pre' = Top
  /\ UNCHANGED << input, depth0 >>

\* struct_variant taking the pending scalar first, as newtype_variant_seed does
MutStructVariantMap(m) ==
  LET c == StashNextValueMap(m.stash)
      m1 == [m EXCEPT !.stash = c.stash]
  IN IF m.value # None
     THEN [m |-> NextValue(m).m, res |-> "ok", kind |-> "map", bytes |-> << >>,
           child |-> NoMap, log |-> << NextValueCall(m) >>]
     ELSE [m |-> m1, res |-> c.res, kind |-> IF c.res = "ok" THEN "map" ELSE "err",
           bytes |-> << >>, child |-> c.map,
           log |-> << Call("stash.next_value_map", c.res, NoPair, None, m, m1) >>]

\* struct_variant: visitor.visit_map(self.stash.next_value_map()?)
StructVariantMap(m) ==
  LET c == StashNextValueMap(m.stash)
      m1 == [m EXCEPT !.stash = c.stash]
  IN [m |-> m1, res |-> c.res, kind |-> IF c.res = "ok" THEN "map" ELSE "err",
      bytes |-> << >>, child |-> c.map,
      log |-> << Call("stash.next_value_map", c.res, NoPair, None, m, m1) >>]

VisitStruct(r) ==
  /\ stack' = IF r.res = "ok"
              THEN Append(SetTop(After(r, "done")), Frame("map", r.child, NoSeq, Top.level + 1))
              ELSE SetTop(After(r, "done"))
  /\ out' = Out("struct_variant", r.res, r.kind, << >>, -1, FALSE)
  /\ calls' = r.log

StructVariant ==
  /\ Running /\ Top.mode = "variant"
  /\ VisitStruct(StructVariantMap(Top.map))
  /\ pre' = Top
  /\ UNCHANGED << input, depth0 >>

\* tuple_variant, line 289: s = into_seq() of the child next_value_map built
TupleVariantChild(m1, clog, s) ==
  [m |-> m1, res |-> s.res, kind |-> IF s.res = "ok" THEN "seq" ELSE "err",
   bytes |-> << >>, depth |-> -1, child |-> s.m, seq |-> s.seq, uf |-> s.uf,
   log |-> clog \o s.log]

\* tuple_variant: the pending scalar read as a sequence by the scalar decoder,
\* else visitor.visit_seq(&mut self.stash.next_value_map()?.into_seq()?)
TupleVariantSeq(m) ==
  LET v == NextValue(m)
      c == StashNextValueMap(m.stash)
      m1 == [m EXCEPT !.stash = c.stash]
      clog == << NextValueCall(m), Call("stash.next_value_map", c.res, NoPair, None, m, m1) >>
  IN IF v.res = "ok"
     THEN [m |-> v.m, res |-> "ok", kind |-> "scalar", bytes |-> v.value,
           depth |-> Sub1(m.stash.remaining_depth), child |-> NoMap, seq |-> NoSeq,
           uf |-> (m.stash.remaining_depth = 0), log |-> << NextValueCall(m) >>]
     ELSE IF c.res # "ok"
     THEN [m |-> m1, res |-> c.res, kind |-> "err", bytes |-> << >>, depth |-> -1,
           child |-> NoMap, seq |-> NoSeq, uf |-> FALSE, log |-> clog]
     ELSE TupleVariantChild(m1, clog, IntoSeq(c.map))

VisitTuple(r) ==
  /\ stack' = IF r.kind = "seq"
              THEN Append(SetTop(After(r, "done")), Frame("seq", r.child, r.seq, Top.level + 1))
              ELSE SetTop(After(r, "done"))
  /\ out' = Out("tuple_variant", r.res, r.kind, r.bytes, r.depth, r.uf)
  /\ calls' = r.log

TupleVariant ==
  /\ Running /\ Top.mode = "variant"
  /\ VisitTuple(TupleVariantSeq(Top.map))
  /\ pre' = Top
  /\ UNCHANGED << input, depth0 >>

(* ------------------------- SeqAccess for PairSeq ---------------------- *)

\* next_element_seed: items.pop(), a scalar at remaining_depth or the owned map
NextElementSeed(seq) ==
  IF seq.items = << >>
  THEN [seq |-> seq, kind |-> "none", item |-> ItemValue(-1, << >>, << >>)]
  ELSE [seq |-> [seq EXCEPT !.items = Front(@)],
        kind |-> IF Back(seq.items).tag = "Value" THEN "scalar" ELSE "child",
        item |-> Back(seq.items)]

SeqElement(r) ==
  /\ stack' = IF r.kind = "child"
              THEN Append(SetTop([Top EXCEPT !.seq = r.seq,
                                             !.yields = Append(@, Yield("child", << >>, r.item.idx))]),
                          Frame("de", r.item.map, NoSeq, Top.level + 1))
              ELSE SetTop([Top EXCEPT !.seq = r.seq,
                                      !.yields = IF r.kind = "none" THEN @
                                                 ELSE Append(@, Yield("element", r.item.value, r.item.idx))])
  /\ out' = Out("next_element_seed", "ok", r.kind, r.item.value,
                IF r.kind = "scalar" THEN Top.seq.remaining_depth ELSE -1, FALSE)
  /\ calls' = << >>

SeqNextElementSeed ==
  /\ Running /\ Top.mode = "seq"
  /\ SeqElement(NextElementSeed(Top.seq))
  /\ pre' = Top
  /\ UNCHANGED << input, depth0 >>

(* ------------------------------ visitor ------------------------------- *)

\* the visitor of an inner node returns to the node above
Return ==
  /\ Running /\ Len(stack) > 1
  /\ stack' = Front(stack)
  /\ out' = Out("return", "ok", "return", << >>, -1, FALSE)
  /\ calls' = << >>
  /\ pre' = Top
  /\ UNCHANGED << input, depth0 >>

Next ==
  \/ DeserializeAny
  \/ DeserializeOption
  \/ DeserializeEnum
  \/ DeserializeSeq
  \/ MapNextKeySeed
  \/ MapNextValueSeed
  \/ EnumVariantSeed
  \/ UnitVariant
  \/ NewtypeVariant
  \/ StructVariant
  \/ TupleVariant
  \/ SeqNextElementSeed
  \/ Return

Spec == Init /\ [][Next]_vars

(* ======================================================================= *)
(*                               properties                                *)
(* ======================================================================= *)

(* The key grammar <segment> ']' [ '[' <rest> ], stated on the bytes.        *)

HasClose(key) == \E i \in 1..Len(key) : key[i] = "]"

FirstClose(key) ==
  CHOOSE i \in 1..Len(key) : key[i] = "]" /\ \A j \in 1..(i - 1) : key[j] # "]"

Segment(key) == SubSeq(key, 1, FirstClose(key) - 1)

Trailing(key) == SubSeq(key, FirstClose(key) + 1, Len(key))

Terminal(key) == HasClose(key) /\ Trailing(key) = << >>

Deferred(key) == HasClose(key) /\ Len(Trailing(key)) >= 2 /\ Trailing(key)[1] = "["

CallsOf(fn) == {i \in 1..Len(calls) : calls[i].fn = fn}

GroupKeys(stash) == {stash.groups[i].key : i \in 1..Len(stash.groups)}

StashedUnder(stash, key) ==
  IF key \in GroupKeys(stash)
  THEN stash.groups[CHOOSE i \in 1..Len(stash.groups) : stash.groups[i].key = key].pairs
  ELSE << >>

\* C1: parse_pair fails with InvalidMapKey exactly when the key has no ']' or
\* when the bytes after the first ']' are non-empty and are not '[' followed by
\* at least one more byte; for every other key it does not fail.
C1_ParsePairRejects ==
  \A i \in CallsOf("parse_pair") :
    LET key == calls[i].pair.key
        bad == \/ ~HasClose(key)
               \/ /\ Trailing(key) # << >>
                  /\ ~(Trailing(key)[1] = "[" /\ Len(Trailing(key)) >= 2)
    IN /\ calls[i].res \in {"ok", "InvalidMapKey"}
       /\ calls[i].res = "InvalidMapKey" <=> bad

\* C1, reached: parse_pair has rejected the key a][ (an opener with nothing
\* after it), and the operation ended with InvalidMapKey
C1_Witness ==
  \E i \in CallsOf("parse_pair") :
    /\ calls[i].pair.key = << "a", "]", "[" >>
    /\ calls[i].res = "InvalidMapKey"
    /\ out.res = "InvalidMapKey"

\* C2: for a well-formed key parse_pair does exactly one of two things.  If
\* nothing follows the first ']' it sets the pending value to the pair's value
\* and returns the bytes before ']' (nothing else changes).  If '[' and at
\* least one byte follow, it returns no key, leaves the pending value and the
\* queue alone, and appends (bytes after '[', value) to the stash group named
\* by the segment, the other groups staying as they were.
C2_ParsePairEffect ==
  \A i \in CallsOf("parse_pair") :
    LET c == calls[i]
        key == c.pair.key
    IN c.res = "ok" =>
         /\ Terminal(key) # Deferred(key)
         /\ Terminal(key) =>
              /\ c.ret = Some(Segment(key))
              /\ c.after = [c.before EXCEPT !.value = Some(c.pair.value)]
         /\ Deferred(key) =>
              /\ c.ret = None
              /\ c.after.value = c.before.value
              /\ c.after.pairs = c.before.pairs
              /\ c.after.stash.remaining_depth = c.before.stash.remaining_depth
              /\ c.after.stash.pending = c.before.stash.pending
              /\ GroupKeys(c.after.stash) = GroupKeys(c.before.stash) \cup {Segment(key)}
              /\ StashedUnder(c.after.stash, Segment(key))
                   = Append(StashedUnder(c.before.stash, Segment(key)),
                            Pair(Tail(Trailing(key)), c.pair.value))
              /\ \A k \in GroupKeys(c.before.stash) \ {Segment(key)} :
                   StashedUnder(c.after.stash, k) = StashedUnder(c.before.stash, k)

\* C2, reached: a pair was deferred to the stash while the value of an earlier
\* terminal pair was pending
C2_Witness ==
  \E i \in CallsOf("parse_pair") :
    /\ calls[i].res = "ok"
    /\ Deferred(calls[i].pair.key)
    /\ calls[i].before.value # None
    /\ calls[i].after.stash.groups # << >>

(* ------------------------------- C3 ----------------------------------- *)

ValueOps == {"next_value_seed", "newtype_variant_seed", "tuple_variant"}

NodeDepth(f) == f.map.stash.remaining_depth

AllTerminal(pairs) == \A i \in 1..Len(pairs) : Terminal(pairs[i].key)

KeyOps == {"next_key_seed", "variant_seed"}

\* C4 as stated: with ceiling D >= 1, reading the pairs of a node at level
\* D + 1 (a key nested D + 1 levels) ends in MaximumDepthReached on the map
\* path, the enum path and the sequence path alike.
C4_AllPathsAlike ==
  ( /\ out.op \in KeyOps \cup {"deserialize_seq"}
    /\ depth0 >= 1
    /\ pre.level = depth0 + 1
    /\ pre.map.pairs # << >>
    /\ AllTerminal(pre.map.pairs) )
  => out.res = "MaximumDepthReached"

\* C4 as amended: a node at level L has remaining_depth D + 1 - L.  A key
\* request (map path) or a discriminant request (enum path) ends in
\* MaximumDepthReached exactly when the node's remaining_depth is 0, so there a
\* key nested D levels is read and one nested D + 1 levels fails.  Building a
\* child from a pending stash group ends in MaximumDepthReached exactly at
\* remaining_depth 0, on the value, payload and sequence paths.  No other place
\* raises MaximumDepthReached: into_seq has no depth check of its own, and a
\* node whose pairs are all terminal converts to a sequence at any depth.
C4_DepthCeiling ==
  /\ \A i \in 1..Len(stack) :
       /\ stack[i].level = i
       /\ NodeDepth(stack[i]) = depth0 + 1 - i
  /\ out.op \in KeyOps => (out.res = "MaximumDepthReached" <=> NodeDepth(pre) = 0)
  /\ \A i \in CallsOf("stash.next_value_map") :
       calls[i].before.stash.pending # None =>
         (calls[i].res = "MaximumDepthReached" <=> calls[i].before.stash.remaining_depth = 0)
  /\ out.res = "MaximumDepthReached" =>
       \/ out.op \in KeyOps /\ NodeDepth(pre) = 0 /\ calls = << >>
       \/ /\ calls # << >>
          /\ calls[Len(calls)].fn = "stash.next_value_map"
          /\ calls[Len(calls)].res = "MaximumDepthReached"
          /\ calls[Len(calls)].before.stash.remaining_depth = 0
  /\ (out.op = "deserialize_seq" /\ AllTerminal(pre.map.pairs)) =>
       /\ out.res = "ok"
       /\ Len(Top.seq.items) = Len(pre.map.pairs)

\* C4, reached: with a ceiling D >= 1 a key request on the node at level D + 1
\* ended in MaximumDepthReached, the D nodes above it having yielded their keys
C4_Witness ==
  /\ depth0 >= 1
  /\ out.op = "next_key_seed"
  /\ out.res = "MaximumDepthReached"
  /\ Len(stack) = depth0 + 1
  /\ \A i \in 1..depth0 : stack[i].yields # << >> /\ stack[i].yields[1].kind = "key"

(* ------------------------------- C5 ----------------------------------- *)

\* keys and values were yielded in turn, beginning with a key
InTurn(y) == \A i \in 1..Len(y) : y[i].kind = IF i % 2 = 1 THEN "key" ELSE "value"

Alternating(y) == Len(y) % 2 = 0 /\ InTurn(y)

\* the pair a key yield and the value yield after it stand for
YieldedPair(y, j) == Pair(y[2 * j - 1].bytes \o << "]" >>, y[2 * j].bytes)

\* C5: on a root PairMap with remaining_depth > 0 whose pairs are all terminal,
\* read as a map by alternating key and value requests, no request fails, every
\* key is followed by the value of the same input pair, no pair is yielded
\* twice, and when the key request answers 'no more entries' every input pair
\* has been yielded.
C5_AllTerminalMap ==
  ( /\ depth0 > 0
    /\ AllTerminal(input)
    /\ Len(stack) = 1
    /\ stack[1].mode = "map" )
  => LET y == stack[1].yields
         n == Len(y) \div 2
     IN /\ out.op = "next_key_seed" => out.res = "ok"
        /\ ( /\ out.op = "next_value_seed"
             /\ pre.req = "key"
             /\ InTurn(pre.yields)
             /\ Len(pre.yields) % 2 = 1 )
           => out.res = "ok" /\ out.kind = "scalar" /\ Alternating(y)
        /\ Alternating(y) =>
             /\ \A j \in 1..n : \E i \in 1..Len(input) : input[i] = YieldedPair(y, j)
             /\ \A j, k \in 1..n : YieldedPair(y, j) = YieldedPair(y, k) => j = k
             /\ (out.op = "next_key_seed" /\ out.kind = "none") => n = Len(input)

\* C5, reached: a map of at least two terminal pairs read to its end
C5_Witness ==
  /\ depth0 > 0
  /\ AllTerminal(input)
  /\ Len(input) >= 2
  /\ Len(stack) = 1
  /\ stack[1].mode = "map"
  /\ Alternating(stack[1].yields)
  /\ out.op = "next_key_seed" /\ out.kind = "none"
  /\ Len(stack[1].yields) = 2 * Len(input)

(* ------------------------------- C6 ----------------------------------- *)

IsIndexKey(key) == key # << >> /\ \A i \in 1..Len(key) : key[i] \in Digits

\* C6: the elements of a sequence are emitted in ascending order of sort key,
\* whatever the order of the input pairs: the sort key of an item is the index
\* its key decodes to, and -1 for any other key, the items still to come are
\* held so that popping from the end takes the smallest sort key first, and no
\* emitted element has a larger sort key than one emitted after it or still
\* to come (so every -1 item precedes every indexed item).
C6_AscendingEmission ==
  \A f \in 1..Len(stack) :
    stack[f].mode = "seq" =>
      LET items == stack[f].seq.items
          y == stack[f].yields
      IN /\ \A i \in 1..Len(items) :
              IF IsIndexKey(items[i].key)
              THEN items[i].idx = Decimal(items[i].key, 0)
              ELSE items[i].idx = -1
         /\ \A i, j \in 1..Len(items) : i < j => items[i].idx >= items[j].idx
         /\ \A i, j \in 1..Len(y) : i < j => y[i].idx <= y[j].idx
         /\ \A i \in 1..Len(y) : \A j \in 1..Len(items) : y[i].idx <= items[j].idx

\* C6, reached: the pairs a] and 0], met by into_seq in the order 0], a], were
\* emitted as the value of a] (sort key -1) and then the value of 0] (sort key 0)
C6_Witness ==
  /\ input = << Pair(<< "a", "]" >>, Val(1)), Pair(<< "0", "]" >>, Val(2)) >>
  /\ Len(stack) = 1
  /\ stack[1].mode = "seq"
  /\ stack[1].yields = << Yield("element", Val(1), -1), Yield("element", Val(2), 0) >>

(* ------------------------------- C7 ----------------------------------- *)

Exhausted(m) == m.pairs = << >> /\ m.stash.groups = << >>

OneTerminalPair(m) ==
  Len(m.pairs) = 1 /\ Terminal(m.pairs[1].key) /\ m.stash.groups = << >>

\* C7 as stated: a discriminant request on an exhausted PairMap fails with
\* EofReached, and on a PairMap of a single terminal pair it yields that
\* pair's key.
C7_AsStated ==
  out.op = "variant_seed" =>
    /\ Exhausted(pre.map) => out.res = "EofReached"
    /\ OneTerminalPair(pre.map) =>
         out.res = "ok" /\ out.bytes = Segment(pre.map.pairs[1].key)

\* C7 as amended: on a PairMap with remaining_depth > 0 a discriminant request
\* never answers 'none', fails with EofReached when queue and stash are both
\* exhausted, and on a single terminal pair yields that pair's key and leaves
\* the pair's value pending; with remaining_depth 0 it fails with
\* MaximumDepthReached before looking at the queue.  unit_variant succeeds
\* and leaves the node, its pending value included, as it was.
C7_EnumDiscriminant ==
  /\ out.op = "variant_seed" =>
       /\ NodeDepth(pre) = 0 => out.res = "MaximumDepthReached" /\ Top.map = pre.map
       /\ NodeDepth(pre) > 0 =>
            /\ out.kind # "none"
            /\ out.res = "ok" => out.kind = "key"
            /\ Exhausted(pre.map) => out.res = "EofReached"
            /\ OneTerminalPair(pre.map) =>
                 /\ out.res = "ok"
                 /\ out.bytes = Segment(pre.map.pairs[1].key)
                 /\ Top.map.value = Some(pre.map.pairs[1].value)
                 /\ Top.map.pairs = << >>
  /\ out.op = "unit_variant" =>
       /\ out.res = "ok"
       /\ Top.map = pre.map
       /\ calls = << >>
       /\ Len(stack) = pre.level

\* C7, reached: the single terminal pair of the input gave the discriminant
\* and unit_variant returned with the pair's value still pending
C7_Witness ==
  /\ Len(input) = 1
  /\ Terminal(input[1].key)
  /\ Len(stack) = 1
  /\ out.op = "unit_variant"
  /\ out.res = "ok"
  /\ stack[1].yields = << Yield("variant", Segment(input[1].key), -1) >>
  /\ stack[1].map.value = Some(input[1].value)

(* ------------------------------- C8 ----------------------------------- *)

ErrorCalls == { i \in 1..Len(calls) : calls[i].res # "ok" }

\* the probe of an empty slot by next_value_seed, newtype_variant_seed and
\* tuple_variant, which go on to the stash when next_value() fails
SwallowedProbe(i) ==
  /\ i = 1
  /\ out.op \in ValueOps
  /\ calls[1].fn = "next_value"
  /\ calls[1].res = "InvalidMapValue"
  /\ Len(calls) >= 2
  /\ calls[2].fn = "stash.next_value_map"

\* C8 as stated: every error raised by a function of the core is the outcome
\* of the decode call it was raised in.
C8_AsStated == \A i \in ErrorCalls : out.res = calls[i].res

\* C8 as amended: every error raised inside the core, except the
\* InvalidMapValue of next_value() probing an empty slot in next_value_seed,
\* newtype_variant_seed and tuple_variant (which go on to the stash, whose
\* outcome is then the call's), is the last thing the call did and is its
\* outcome; a call that ends in an error hands back no key, value, child node
\* or PairSeq, whatever it had collected.
C8_ErrorsTerminal ==
  /\ \A i \in ErrorCalls :
       \/ SwallowedProbe(i)
       \/ i = Len(calls) /\ out.res = calls[i].res
  /\ out.res # "ok" =>
       /\ out.res \in Errors
       /\ out.kind = "err"
       /\ out.bytes = << >>
       /\ Len(stack) = pre.level
       /\ Top.level = pre.level
       /\ Top.seq = pre.seq
       /\ Top.mode # "seq" \/ pre.mode = "seq"
       /\ Top.yields = pre.yields

\* C8, reached: into_seq had collected the value of one pair when the next
\* key was rejected, and deserialize_seq ended in InvalidMapKey with no PairSeq
C8_Witness ==
  /\ out.op = "deserialize_seq"
  /\ out.res = "InvalidMapKey"
  /\ \E i \in CallsOf("next_value") : calls[i].res = "ok"
  /\ calls[Len(calls)].fn = "parse_pair"
  /\ Top.seq = NoSeq

(* ------------------------------- C9 ----------------------------------- *)

\* C9: deserialize_option answers 'absent' exactly when the level-local queue
\* of the node is empty, whatever its stash or slot hold, and otherwise answers
\* 'present' and hands the same node on, unchanged, to decode the content.
C9_OptionProbe ==
  out.op = "deserialize_option" =>
    /\ out.res = "ok"
    /\ out.kind \in {"absent", "present"}
    /\ out.kind = "absent" <=> pre.map.pairs = << >>
    /\ Top.map = pre.map
    /\ calls = << >>
    /\ Len(stack) = pre.level
    /\ out.kind = "present" => Top.mode = "de" /\ Top.level = pre.level

\* C9, reached: a child node, built from a stash group, probed as present
\* and left with its queue as it was
C9_Witness ==
  /\ Len(stack) >= 2
  /\ out.op = "deserialize_option"
  /\ out.kind = "present"
  /\ Top.mode = "de"
  /\ Top.map.pairs # << >>
  /\ Top.map = pre.map

(* ------------------------------- C11 ---------------------------------- *)

\* the place of an item in the order into_seq discovered the items, read from
\* the log of the into_seq that built them: the next_value call that returned
\* a Value item, the stash.next_key call that returned the group of a Map
\* item, and for the single-pair maps of the empty-named group the pop order
\* (from the back) of the group's pairs
DiscoveryRank(item) ==
  LET S == Len(input) + 1
  IN IF item.tag = "Value"
     THEN S * (CHOOSE i \in CallsOf("next_value") : calls[i].ret = Some(item.value))
     ELSE IF item.key # << >>
     THEN S * (CHOOSE i \in CallsOf("stash.next_key") : calls[i].ret = Some(item.key))
     ELSE LET i == CHOOSE i \in CallsOf("stash.next_key") : calls[i].ret = Some(<< >>)
              group == calls[i].after.stash.pending[1].pairs
              j == CHOOSE j \in 1..Len(group) : group[j] = item.map.pairs[1]
          IN S * i + (Len(group) - j)

\* the operation built a PairSeq, now the top frame
BuiltSeq == out.op \in {"deserialize_seq", "tuple_variant"} /\ out.kind = "seq"

\* the sequence frame a next_element_seed acted on
SeqFrame == IF out.kind = "child" THEN stack[Len(stack) - 1] ELSE Top

\* C11: items with equal sort key are emitted in the order into_seq discovered
\* them: the PairSeq into_seq hands back holds, among items of equal sort key,
\* the later discovered nearer the front, and next_element takes the item at
\* the end of the list and leaves the rest as it was.
C11_StableTies ==
  /\ BuiltSeq =>
       \A p, q \in 1..Len(Top.seq.items) :
         (p < q /\ Top.seq.items[p].idx = Top.seq.items[q].idx) =>
           DiscoveryRank(Top.seq.items[p]) > DiscoveryRank(Top.seq.items[q])
  /\ (out.op = "next_element_seed" /\ out.kind # "none") =>
       /\ pre.seq.items # << >>
       /\ SeqFrame.seq.items = Front(pre.seq.items)
       /\ SeqFrame.yields = Append(pre.yields,
            Yield(IF out.kind = "child" THEN "child" ELSE "element",
                  Back(pre.seq.items).value, Back(pre.seq.items).idx))
       /\ out.kind = "child" => Top.map = Back(pre.seq.items).map

\* C11, reached: two terminal pairs with the same key a], of sort key -1, were
\* emitted in pop order: the value of the last pair, then that of the first
C11_Witness ==
  /\ input = << Pair(<< "a", "]" >>, Val(1)), Pair(<< "a", "]" >>, Val(2)) >>
  /\ Len(stack) = 1
  /\ stack[1].mode = "seq"
  /\ stack[1].yields = << Yield("element", Val(2), -1), Yield("element", Val(1), -1) >>

(* ------------------------------- C12 ---------------------------------- *)

LastCall == calls[Len(calls)]

\* the key the operation returned was taken from the stash
FromStash == calls # << >> /\ LastCall.fn = "stash.next_key" /\ LastCall.ret # None

\* the key the operation returned was the terminal key of a pair of the queue
FromQueue == calls # << >> /\ LastCall.fn = "parse_pair" /\ LastCall.ret # None

\* C12: a key request on a node with remaining_depth = 0 fails with
\* MaximumDepthReached and pops nothing.  With remaining_depth > 0 the stash
\* is asked at most once, last, and only with the queue empty; a key taken
\* from the stash is returned only when the queue the request started on held
\* no terminal key, and it leaves the queue empty, so every terminal key of
\* the queue is returned before any group key; a terminal key is returned
\* without asking the stash; and 'no more entries' is returned exactly when
\* both the queue and the stash have nothing left.
C12_KeyIteration ==
  out.op = "next_key_seed" =>
    /\ NodeDepth(pre) = 0 =>
         out.res = "MaximumDepthReached" /\ Top.map = pre.map /\ calls = << >>
    /\ NodeDepth(pre) > 0 =>
         /\ \A i \in CallsOf("stash.next_key") :
              i = Len(calls) /\ calls[i].before.pairs = << >>
         /\ FromStash =>
              /\ out.kind = "key"
              /\ out.bytes = LastCall.ret[1]
              /\ \A i \in 1..Len(pre.map.pairs) : ~Terminal(pre.map.pairs[i].key)
              /\ Top.map.pairs = << >>
         /\ FromQueue =>
              /\ out.kind = "key"
              /\ Terminal(LastCall.pair.key)
              /\ out.bytes = Segment(LastCall.pair.key)
              /\ CallsOf("stash.next_key") = {}
              /\ Top.map.stash.pending = pre.map.stash.pending
         /\ out.kind = "key" => FromStash \/ FromQueue
         /\ out.kind = "none" =>
              Top.map.pairs = << >> /\ Top.map.stash.groups = << >>
         /\ (out.res = "ok" /\ Top.map.pairs = << >> /\ ~FromQueue /\ ~FromStash) =>
              out.kind = "none"

\* C12, reached: on one node the terminal key of the queue was returned, its
\* value read, and then the key of the group the stash held
C12_Witness ==
  /\ Len(stack) = 1
  /\ out.op = "next_key_seed"
  /\ FromStash
  /\ Len(pre.yields) = 2
  /\ pre.yields[1].kind = "key"
  /\ pre.yields[2].kind = "value"
  /\ Len(input) = 2

(* ------------------------------- C13 ---------------------------------- *)

\* a value request follows, on the same node, a key request that returned a key
ValueAfterKey ==
  /\ out.op = "next_key_seed"
  /\ out.kind = "key"
  /\ out'.op = "next_value_seed"

\* the value request returned the pending scalar s of node m, stash untouched
ScalarOutcome(m, s) ==
  /\ out'.res = "ok"
  /\ out'.kind = "scalar"
  /\ out'.bytes = s
  /\ out'.depth = m.stash.remaining_depth - 1
  /\ m.stash.remaining_depth >= 1
  /\ Len(stack') = Len(stack)
  /\ Top'.map.stash = m.stash
  /\ Top'.map.value = None
  /\ \A i \in 1..Len(calls') : calls'[i].fn = "next_value"

\* the value request returned the child PairMap of the group pending in m
ChildOutcome(m) ==
  /\ out'.res = "ok"
  /\ out'.kind = "child"
  /\ Len(stack') = Len(stack) + 1
  /\ Top'.map = PairMapNew(m.stash.remaining_depth - 1, m.stash.pending[1].pairs)
  /\ m.stash.remaining_depth >= 1
  /\ stack'[Len(stack)].map.stash.pending = None
  /\ stack'[Len(stack)].map.pairs = m.pairs

\* C13 as stated: after a key request that returned a terminal key the value
\* is that pair's scalar, decoded at remaining_depth - 1 with the stash
\* untouched; after one that returned a group key no scalar is pending and the
\* value is the child PairMap of that group at remaining_depth - 1.
C13_AsStated ==
  [][ValueAfterKey =>
        IF FromQueue
        THEN ScalarOutcome(Top.map, LastCall.pair.value)
        ELSE Top.map.value = None /\ ChildOutcome(Top.map)]_vars

\* C13 as amended: after a key request that returned a terminal key the value
\* is that pair's scalar, decoded at remaining_depth - 1 with the stash
\* untouched.  After one that returned a group key the value is the child
\* PairMap of that group at remaining_depth - 1, unless a scalar is still
\* pending from an earlier terminal key whose value was never requested: then
\* that scalar is returned and the group stays pending in the stash.
C13_ValueResolution ==
  [][ValueAfterKey =>
        IF FromQueue
        THEN /\ Top.map.value = Some(LastCall.pair.value)
             /\ ScalarOutcome(Top.map, LastCall.pair.value)
        ELSE /\ Top.map.stash.pending # None
             /\ Top.map.stash.pending[1].key = out.bytes
             /\ IF Top.map.value = None
                THEN ChildOutcome(Top.map)
                ELSE ScalarOutcome(Top.map, Top.map.value[1])]_vars

\* C13, reached: the value after a group key was the child PairMap of that
\* group, one level down and at remaining_depth - 1
C13_Witness ==
  /\ out.op = "next_value_seed"
  /\ out.kind = "child"
  /\ Len(stack) >= 2
  /\ pre.req = "key"
  /\ pre.yields # << >>
  /\ pre.yields[Len(pre.yields)].kind = "key"
  /\ Top.map.pairs = pre.map.stash.pending[1].pairs
  /\ pre.map.stash.pending[1].key = pre.yields[Len(pre.yields)].bytes
  /\ NodeDepth(Top) = NodeDepth(pre) - 1

(* ------------------------------- C14 ---------------------------------- *)

\* the stash.next_value_map calls of the into_seq that built the PairSeq
\* (into_seq logs the group key with the call)
GroupCalls ==
  { i \in CallsOf("stash.next_value_map") : calls[i].res = "ok" /\ calls[i].ret # None }

\* the positions of the map items of the PairSeq made for group key k
MapItemsOf(k) ==
  { j \in 1..Len(Top.seq.items) :
      Top.seq.items[j].tag = "Map" /\ Top.seq.items[j].key = k }

\* C14: in the PairSeq into_seq builds, a stash group with an empty key gives
\* one map item per pair of the group, each a single-pair PairMap holding that
\* pair at remaining_depth - 1 with sort key -1, as many items as the group
\* has pairs; a group with a non-empty key gives exactly one map item, holding
\* the child with all the group's pairs at remaining_depth - 1, with the index
\* the group key decodes to, or -1, as sort key; and there is no other map item.
C14_GroupItems ==
  BuiltSeq =>
    /\ \A i \in GroupCalls :
         LET k == calls[i].ret[1]
             group == calls[i].before.stash.pending[1]
             d == calls[i].before.stash.remaining_depth
             its == MapItemsOf(k)
         IN /\ group.key = k
            /\ d >= 1
            /\ IF k = << >>
               THEN /\ Cardinality(its) = Len(group.pairs)
                    /\ \A j \in its :
                         /\ Top.seq.items[j].idx = -1
                         /\ \E n \in 1..Len(group.pairs) :
                              Top.seq.items[j].map = WithOnePair(d - 1, group.pairs[n])
                    /\ \A n \in 1..Len(group.pairs) :
                         \E j \in its : Top.seq.items[j].map.pairs = << group.pairs[n] >>
               ELSE /\ Cardinality(its) = 1
                    /\ \A j \in its :
                         /\ Top.seq.items[j].map = PairMapNew(d - 1, group.pairs)
                         /\ Top.seq.items[j].idx =
                              IF IsIndexKey(k) THEN Decimal(k, 0) ELSE -1
    /\ \A j \in 1..Len(Top.seq.items) :
         Top.seq.items[j].tag = "Map" =>
           \E i \in GroupCalls : calls[i].ret = Some(Top.seq.items[j].key)

\* C14, reached: a PairSeq built from an empty-named group of two pairs
\* holds two single-pair maps
C14_Witness ==
  /\ BuiltSeq
  /\ \E i \in GroupCalls :
       calls[i].ret = Some(<< >>) /\ Len(calls[i].before.stash.pending[1].pairs) = 2
  /\ Cardinality(MapItemsOf(<< >>)) = 2
  /\ \A j \in MapItemsOf(<< >>) : Len(Top.seq.items[j].map.pairs) = 1

(* ------------------------------- C15 ---------------------------------- *)

\* C15: the PairSeq into_seq builds has the remaining_depth of the PairMap it
\* was built from, and keeps it for as long as it lives; next_element decodes
\* a scalar item at exactly that depth; and every map item, when built and
\* when handed on by next_element, is a PairMap at that depth minus one.
C15_SeqDepth ==
  /\ \A f \in 1..Len(stack) :
       stack[f].mode = "seq" =>
         /\ stack[f].seq.remaining_depth = NodeDepth(stack[f])
         /\ \A j \in 1..Len(stack[f].seq.items) :
              stack[f].seq.items[j].tag = "Map" =>
                /\ stack[f].seq.remaining_depth >= 1
                /\ stack[f].seq.items[j].map.stash.remaining_depth =
                     stack[f].seq.remaining_depth - 1
  /\ (out.op = "deserialize_seq" /\ out.res = "ok") =>
       Top.seq.remaining_depth = pre.map.stash.remaining_depth
  /\ out.op = "next_element_seed" =>
       /\ SeqFrame.seq.remaining_depth = pre.seq.remaining_depth
       /\ out.kind = "scalar" => out.depth = pre.seq.remaining_depth
       /\ out.kind = "child" =>
            /\ Top.map = Back(pre.seq.items).map
            /\ NodeDepth(Top) = pre.seq.remaining_depth - 1

\* C15, reached: a node below the root, at a remaining_depth of at least 1,
\* was converted and its second scalar element decoded at the node's depth
C15_Witness ==
  /\ Len(stack) >= 2
  /\ out.op = "next_element_seed"
  /\ out.kind = "scalar"
  /\ Len(Top.yields) = 2
  /\ out.depth = NodeDepth(Top)
  /\ out.depth >= 1

(* ------------------------------- C16 ---------------------------------- *)

PayloadOps == {"newtype_variant_seed", "tuple_variant", "struct_variant"}

StashCalls == { i \in 1..Len(calls) : calls[i].fn \in {"stash.next_key", "stash.next_value_map"} }

\* the node the payload operation was called on, as the operation left it
Parent == stack[pre.level]

\* C16 as stated: for newtype, tuple and struct variants alike, a pending
\* scalar is the payload and the stash is not consulted.
C16_AsStated ==
  (out.op \in PayloadOps /\ pre.map.value # None) => StashCalls = {}

\* C16 as amended: newtype_variant_seed and tuple_variant take the pending
\* scalar when there is one (tuple_variant reads it as a sequence), both at
\* remaining_depth - 1 and without consulting the stash, and only otherwise
\* use the child the stash builds (tuple_variant converts it to a sequence).
\* struct_variant never looks at the pending scalar: it always asks the stash
\* for the child and reads it as a map, and fails with the stash's error when
\* no group is pending, a pending scalar notwithstanding.
C16_PayloadResolution ==
  /\ (out.op \in {"newtype_variant_seed", "tuple_variant"} /\ pre.map.value # None) =>
       /\ out.res = "ok"
       /\ out.kind = "scalar"
       /\ out.bytes = pre.map.value[1]
       /\ out.depth = NodeDepth(pre) - 1
       /\ StashCalls = {}
       /\ Top.map.stash = pre.map.stash
       /\ Top.map.value = None
       /\ Len(stack) = pre.level
  /\ (out.op \in {"newtype_variant_seed", "tuple_variant"} /\ pre.map.value = None) =>
       /\ Len(calls) >= 2
       /\ calls[2].fn = "stash.next_value_map"
       /\ calls[2].before = pre.map
       /\ out.kind # "scalar"
       /\ (out.res = "ok" /\ out.op = "newtype_variant_seed") =>
            /\ out.kind = "child"
            /\ Len(stack) = pre.level + 1
            /\ Top.map = PairMapNew(NodeDepth(pre) - 1, pre.map.stash.pending[1].pairs)
       /\ (out.res = "ok" /\ out.op = "tuple_variant") =>
            /\ out.kind = "seq"
            /\ Len(stack) = pre.level + 1
            /\ Top.mode = "seq"
            /\ Top.seq.remaining_depth = NodeDepth(pre) - 1
  /\ out.op = "struct_variant" =>
       /\ Len(calls) = 1
       /\ calls[1].fn = "stash.next_value_map"
       /\ calls[1].before = pre.map
       /\ Parent.map.value = pre.map.value
       /\ out.res = "ok" <=> pre.map.stash.pending # None
       /\ out.res = "ok" =>
            /\ Len(stack) = pre.level + 1
            /\ Top.mode = "map"
            /\ Top.map = PairMapNew(NodeDepth(pre) - 1, pre.map.stash.pending[1].pairs)

\* C16, reached: a struct variant whose discriminant was a group key read the
\* child of that group as a map
C16_Witness ==
  /\ out.op = "struct_variant"
  /\ out.res = "ok"
  /\ Len(stack) = 2
  /\ Top.mode = "map"
  /\ pre.yields = << Yield("variant", pre.map.stash.pending[1].key, -1) >>
  /\ Top.map.pairs = pre.map.stash.pending[1].pairs

(* ------------------------------- C17 ---------------------------------- *)

\* C17: no operation evaluates remaining_depth - 1 at remaining_depth 0: the
\* scalar contexts of next_value_seed, newtype_variant_seed and tuple_variant
\* and the discriminant context of variant_seed are made on nodes with
\* remaining_depth >= 1 and get a depth one less, the single-pair maps of an
\* empty-named group are made by into_seq at remaining_depth >= 1, and no
\* depth anywhere exceeds the ceiling the decode started with.
C17_NoUnderflow ==
  /\ out.uf = FALSE
  /\ out.depth \in -1..depth0
  /\ (out.op \in ValueOps /\ out.kind = "scalar") =>
       NodeDepth(pre) >= 1 /\ out.depth = NodeDepth(pre) - 1
  /\ (out.op = "variant_seed" /\ out.res = "ok") =>
       NodeDepth(pre) >= 1 /\ out.depth = NodeDepth(pre) - 1
  /\ \A i \in CallsOf("stash.next_value_map") :
       calls[i].res = "ok" => calls[i].before.stash.remaining_depth >= 1
  /\ \A f \in 1..Len(stack) :
       /\ NodeDepth(stack[f]) \in 0..depth0
       /\ stack[f].seq.remaining_depth \in 0..depth0
       /\ \A j \in 1..Len(stack[f].seq.items) :
            stack[f].seq.items[j].map.stash.remaining_depth \in 0..depth0

\* C17, reached: a node at remaining_depth 0 holding an empty-named group was
\* converted to a sequence; the conversion ended in MaximumDepthReached before
\* any single-pair map was made
C17_Witness ==
  /\ out.op = "deserialize_seq"
  /\ NodeDepth(pre) = 0
  /\ \E i \in CallsOf("stash.next_key") : calls[i].ret = Some(<< >>)
  /\ out.res = "MaximumDepthReached"
  /\ out.uf = FALSE

(* ------------------------------- C18 ---------------------------------- *)

\* the calls in which the stash built a child PairMap
ChildBuilds == { i \in CallsOf("stash.next_value_map") : calls[i].res = "ok" }

\* the call was made on the root node (the into_seq of tuple_variant runs on
\* the child, and logs the group key with its calls)
OnRoot(i) == pre.level = 1 /\ ~(out.op = "tuple_variant" /\ calls[i].ret # None)

\* the pairs of the input that belong to the group named k
Members(k) ==
  { n \in 1..Len(input) : Deferred(input[n].key) /\ Segment(input[n].key) = k }

SubKey(key) == SubSeq(Trailing(key), 2, Len(Trailing(key)))

\* C18: whenever the stash builds a child PairMap, in a value request, a
\* payload request or into_seq, the level-local queue of the parent is empty;
\* a child built on the root holds exactly the pairs of the input that belong
\* to its group, each under the rest of its key; and a struct variant
\* requested while pairs are still queued (its discriminant came from a
\* terminal key) builds no child.
C18_ChildComplete ==
  /\ \A i \in ChildBuilds :
       /\ calls[i].before.pairs = << >>
       /\ OnRoot(i) =>
            LET g == calls[i].before.stash.pending[1]
            IN /\ Len(g.pairs) = Cardinality(Members(g.key))
               /\ \A n \in Members(g.key) :
                    \E j \in 1..Len(g.pairs) :
                      g.pairs[j] = Pair(SubKey(input[n].key), input[n].value)
  /\ (out.op \in PayloadOps /\ pre.map.pairs # << >>) =>
       /\ ChildBuilds = {}
       /\ pre.map.value # None
       /\ out.op = "struct_variant" => out.res # "ok"

\* C18, reached: the two pairs of the input belong to one group, and the
\* child the root built for it as a map value holds both
C18_Witness ==
  /\ Len(input) = 2
  /\ out.op = "next_value_seed"
  /\ out.kind = "child"
  /\ pre.level = 1
  /\ Len(Top.map.pairs) = 2
  /\ Cardinality(Members(pre.map.stash.pending[1].key)) = 2

(* ------------------------------- C19 ---------------------------------- *)

ParsePairCalls == CallsOf("parse_pair")

\* the queue the loops of the operation started on: the node's own, and for
\* tuple_variant that of the child it converts
StartQueue ==
  IF out.op = "tuple_variant"
  THEN IF Len(calls) >= 2 /\ calls[2].res = "ok"
       THEN calls[2].before.stash.pending[1].pairs
       ELSE << >>
  ELSE pre.map.pairs

\* the queue as it was before the pop that led to parse_pair call i
QueueBefore(i) ==
  LET prev == { j \in ParsePairCalls : j < i }
  IN IF prev = {}
     THEN StartQueue
     ELSE calls[CHOOSE j \in prev : \A k \in prev : k <= j].before.pairs

\* C19: every iteration of next_key's loop, in whatever operation runs it,
\* takes exactly one pair, the last, from the queue, so next_key makes at most
\* as many iterations as the queue has pairs and into_seq's loops end as well;
\* parse_pair itself leaves the queue alone; the stash is asked for a key
\* (next_key returned none) only with the queue empty; and a node converted to
\* a PairSeq has its queue and its stash empty.
C19_LoopsTerminate ==
  /\ \A i \in ParsePairCalls :
       /\ QueueBefore(i) # << >>
       /\ calls[i].pair = Back(QueueBefore(i))
       /\ calls[i].before.pairs = Front(QueueBefore(i))
       /\ calls[i].after.pairs = calls[i].before.pairs
  /\ Cardinality(ParsePairCalls) <= Len(StartQueue)
  /\ \A i \in CallsOf("stash.next_key") : calls[i].before.pairs = << >>
  /\ (out.op \in KeyOps /\ ParsePairCalls # {}) =>
       Len(Top.map.pairs) = Len(pre.map.pairs) - Cardinality(ParsePairCalls)
  /\ (out.op = "next_key_seed" /\ out.kind = "none") => Top.map.pairs = << >>
  /\ BuiltSeq =>
       /\ Top.map.pairs = << >>
       /\ Top.map.stash.groups = << >>
       /\ Cardinality(ParsePairCalls) = Len(StartQueue)

\* C19, reached: next_key went through a queue of two deferred pairs, one
\* pair each iteration, and returned none with the queue empty
C19_Witness ==
  /\ out.op = "next_key_seed"
  /\ Len(pre.map.pairs) = 2
  /\ Cardinality(ParsePairCalls) = 2
  /\ \A i \in ParsePairCalls : calls[i].ret = None /\ calls[i].res = "ok"
  /\ Top.map.pairs = << >>
  /\ CallsOf("stash.next_key") # {}

====
